---- MODULE Spec2Model ----
(***************************************************************************)
(* romsviz: multi-file netCDF access layer (romsviz/ncout.py, NetcdfOut)   *)
(* and the result record it returns (romsviz/outvar.py, OutVar).           *)
(*                                                                         *)
(* Python lists indexed by file (use_files, t_dist, t_per_file) are        *)
(* functions over 0..n-1; dimension lists are sequences (position p of the *)
(* Python list is element p+1).  Index values keep Python's 0-based        *)
(* numbering.  A limit end point is a tagged value: None, an int or a      *)
(* datetime.                                                               *)
(***************************************************************************)
EXTENDS Integers, Sequences, FiniteSets, TLC

\* ---------------------------------------------------------------- bounds
NumFiles == 3        \* number of shard files of the dataset handle
MaxEntries == 4      \* largest number of time entries of the dataset
XSize == 2           \* size of the non-growable dimension xi_rho
CallFiles == 2       \* number of shard files when calls are repeated
CallEntries == 2     \* largest number of time entries there
PlanFiles == 3       \* number of shards in the planner specification
PlanMaxLen == 5      \* largest shard there
MaxRecDims == 2      \* dimensions of a record in the record specification

\* ------------------------------------------------------- python values
None == [k |-> "none", v |-> 0]
IntV(n) == [k |-> "int", v |-> n]
DateV(d) == [k |-> "date", v |-> d]

IsNone(x) == x.k = "none"
IsInt(x) == x.k = "int"
IsDate(x) == x.k = "date"

default_lim == <<None, None>>

Min(a, b) == IF a < b THEN a ELSE b
Max(a, b) == IF a > b THEN a ELSE b

RECURSIVE SumTo(_, _)
\* f[0] + ... + f[n-1]
SumTo(f, n) == IF n = 0 THEN 0 ELSE SumTo(f, n - 1) + f[n - 1]

\* position (0-based) of name d in the list ds, Python list.index
ListIndex(ds, d) == (CHOOSE p \in 1..Len(ds) : ds[p] = d /\ \A q \in 1..(p - 1) : ds[q] # d) - 1

InList(d, ds) == \E p \in 1..Len(ds) : ds[p] = d

\* ------------------------------------------------------ n-d arrays
\* An array has a shape (one length per axis), the dimension name of each
\* axis, and a value at every index tuple.
Indices(shape) ==
  CASE Len(shape) = 0 -> {<<>>}
    [] Len(shape) = 1 -> {<<i>> : i \in 0..(shape[1] - 1)}
    [] Len(shape) = 2 -> {<<i, j>> : i \in 0..(shape[1] - 1), j \in 0..(shape[2] - 1)}

\* python slice(start, stop) applied to an axis of length n: first index and count
SliceStart(sl, n) == IF IsNone(sl[1]) THEN 0 ELSE IF sl[1].v < 0 THEN Max(sl[1].v + n, 0) ELSE Min(sl[1].v, n)
SliceStop(sl, n) == IF IsNone(sl[2]) THEN n ELSE IF sl[2].v < 0 THEN Max(sl[2].v + n, 0) ELSE Min(sl[2].v, n)
SliceLen(sl, n) == Max(SliceStop(sl, n) - SliceStart(sl, n), 0)

\* arr[slices]: one slice per axis
GetItem(arr, slices) ==
  LET shp == [a \in 1..Len(arr.shape) |-> SliceLen(slices[a], arr.shape[a])]
  IN [shape |-> shp, axes |-> arr.axes,
      at |-> [idx \in Indices(shp) |-> arr.at[[a \in 1..Len(shp) |-> idx[a] + SliceStart(slices[a], arr.shape[a])]]]]

\* np.concatenate((a, b), axis): axis is the 0-based position
Concat2(a, b, axis) ==
  LET shp == [x \in 1..Len(a.shape) |-> IF x = axis + 1 THEN a.shape[x] + b.shape[x] ELSE a.shape[x]]
  IN [shape |-> shp, axes |-> a.axes,
      at |-> [idx \in Indices(shp) |->
                IF idx[axis + 1] < a.shape[axis + 1] THEN a.at[idx]
                ELSE b.at[[x \in 1..Len(shp) |-> IF x = axis + 1 THEN idx[x] - a.shape[x] ELSE idx[x]]]]]

RECURSIVE np_concatenate(_, _)
np_concatenate(list, axis) ==
  IF Len(list) = 1 THEN list[1]
  ELSE Concat2(np_concatenate(SubSeq(list, 1, Len(list) - 1), axis), list[Len(list)], axis)

\* positions of the axes that squeeze() keeps: those whose length is not 1
RECURSIVE KeptAxes(_, _)
KeptAxes(shape, a) ==
  IF a > Len(shape) THEN <<>>
  ELSE (IF shape[a] # 1 THEN <<a>> ELSE <<>>) \o KeptAxes(shape, a + 1)

\* ndarray.squeeze(): drop every axis of length one
squeeze(arr) ==
  LET keep == KeptAxes(arr.shape, 1)
      shp == [x \in 1..Len(keep) |-> arr.shape[keep[x]]]
      full(idx) == [a \in 1..Len(arr.shape) |->
                      IF arr.shape[a] # 1 THEN idx[CHOOSE x \in 1..Len(keep) : keep[x] = a] ELSE 0]
  IN [shape |-> shp, axes |-> [x \in 1..Len(keep) |-> arr.axes[keep[x]]],
      at |-> [idx \in Indices(shp) |-> arr.at[full(idx)]]]

\* ------------------------------------------------------------- state
VARIABLES
  shards,    \* the files of self.filepaths: file k |-> its raw time values
  time,      \* self.time: [set |-> FALSE] until set_time_array assigns it
  rewritten, \* self.time has been assigned while it was already set
  res,       \* outcome of the last get_var call: error kind and the OutVar
  io,        \* files opened, read and closed by the last get_var call
  plan,      \* outcome of the last _compute_time_dist call
  ret        \* outcome of the last OutVar method call

vars == <<shards, time, rewritten, res, io, plan, ret>>

\* -------------------------------------------------------- the dataset
time_name == "ocean_time"
Variables == {"ocean_time", "temp", "h"}

\* ds.variables[var_name].dimensions
dimensions(var_name) ==
  CASE var_name = "ocean_time" -> <<"ocean_time">>
    [] var_name = "temp" -> <<"ocean_time", "xi_rho">>
    [] OTHER -> <<"xi_rho">>

nfiles == Cardinality(DOMAIN shards)
t_per_file == [k \in DOMAIN shards |-> Len(shards[k])]

\* size of dimension d in file k
DimSize(k, d) == IF d = time_name THEN Len(shards[k]) ELSE XSize

\* ds.variables[var_name].shape in file k
shape(k, var_name) == [p \in 1..Len(dimensions(var_name)) |-> DimSize(k, dimensions(var_name)[p])]

\* the values of variable var_name stored in file k; every cell of every
\* file holds a value of its own, except h which is the same in all files
FileVar(k, var_name) ==
  [shape |-> shape(k, var_name), axes |-> dimensions(var_name),
   at |-> [idx \in Indices(shape(k, var_name)) |->
             CASE var_name = "ocean_time" -> shards[k][idx[1] + 1]
               [] var_name = "temp" -> <<k, idx[1], idx[2]>>
               [] OTHER -> <<idx[1]>>]]

\* units attribute of the time variable: decoded date = reference + raw
t_units == 10
num2date(raw, units) == DateV(units + raw)

\* one "with netCDF4.Dataset(fn)" block: open, one access, close
open_close(k, op) == <<[op |-> "open", f |-> k], [op |-> op, f |-> k], [op |-> "close", f |-> k]>>

RECURSIVE FilesLog(_, _)
\* the blocks of a loop over the first n files
FilesLog(n, op) == IF n = 0 THEN <<>> ELSE FilesLog(n - 1, op) \o open_close(n - 1, op)

\* ------------------------------------------------- NetcdfOut methods
\* limits (kwargs): key |-> Absent, a bare value or a two element tuple
Absent == [t |-> "absent", a |-> None, b |-> None]
Scalar(x) == [t |-> "scalar", a |-> x, b |-> x]
Pair(x, y) == [t |-> "pair", a |-> x, b |-> y]
Keys == {"ocean_time", "xi_rho"}

\* variant: the keys are not checked at all
verify_kwargs_skipped(vd_names, limits) == "none"

verify_kwargs(vd_names, limits) ==
  IF \E key \in Keys : limits[key] # Absent /\ ~InList(key, vd_names)
  THEN "NoDimension" ELSE "none"

get_dim_lims(vd_names, limits) ==
  [p \in 1..Len(vd_names) |->
     IF limits[vd_names[p]] = Absent THEN default_lim
     ELSE IF limits[vd_names[p]].t # "pair" THEN <<limits[vd_names[p]].a, limits[vd_names[p]].a>>
     ELSE <<limits[vd_names[p]].a, limits[vd_names[p]].b>>]

\* variant: the test "lower larger than upper" is missing
verify_one_unordered(l_1, l_2, length) ==
  IF <<l_1, l_2>> = default_lim THEN "none"
  ELSE IF ~IsInt(l_1) THEN "TypeError"
  ELSE IF ~(l_1.v >= 0 /\ l_1.v <= length) THEN "OutsideLimits"
  ELSE IF ~IsInt(l_2) THEN "TypeError"
  ELSE IF ~(l_2.v >= 0 /\ l_2.v <= length) THEN "OutsideLimits"
  ELSE "none"

\* one iteration of the loop of _verify_lims; "and" evaluates left to right
\* and comparing a datetime with an int raises TypeError
verify_one(l_1, l_2, length) ==
  IF <<l_1, l_2>> = default_lim THEN "none"
  ELSE IF ~IsInt(l_1) THEN "TypeError"
  ELSE IF ~(l_1.v >= 0 /\ l_1.v <= length) THEN "OutsideLimits"
  ELSE IF ~IsInt(l_2) THEN "TypeError"
  ELSE IF ~(l_2.v >= 0 /\ l_2.v <= length) THEN "OutsideLimits"
  ELSE IF l_2.v < l_1.v THEN "LowerLargerUpper"
  ELSE "none"

RECURSIVE verify_from(_, _, _)
verify_from(lims, bounds, p) ==
  IF p > Len(lims) THEN "none"
  ELSE IF verify_one(lims[p][1], lims[p][2], bounds[p]) # "none"
       THEN verify_one(lims[p][1], lims[p][2], bounds[p])
       ELSE verify_from(lims, bounds, p + 1)

verify_lims(lims, bounds) == verify_from(lims, bounds, 1)

get_num_time_entries == SumTo(t_per_file, nfiles)

RECURSIVE TimeUpTo(_)
\* decoded time values of the first n files, in file order
TimeUpTo(n) ==
  IF n = 0 THEN <<>>
  ELSE TimeUpTo(n - 1) \o [j \in 1..Len(shards[n - 1]) |-> num2date(shards[n - 1][j], t_units)]

\* variant: the new values are appended to the ones already held
set_time_array_appending == time.val \o TimeUpTo(nfiles)

\* the value set_time_array assigns to self.time
set_time_array == TimeUpTo(nfiles)

\* np.where(t == date)[0]: the positions holding date, ascending
where(t, date) == {i \in 0..(Len(t) - 1) : t[i + 1] = date}

FirstOf(S) == CHOOSE i \in S : \A j \in S : i <= j
LastOf(S) == CHOOSE i \in S : \A j \in S : i >= j

\* variant: the last occurrence of the date is taken
idx_from_date_last(t, date) ==
  IF where(t, date) = {} THEN [err |-> "DateNotIn", idx |-> 0]
  ELSE [err |-> "none", idx |-> LastOf(where(t, date))]

idx_from_date(t, date) ==
  IF where(t, date) = {} THEN [err |-> "DateNotIn", idx |-> 0]
  ELSE [err |-> "none", idx |-> FirstOf(where(t, date))]

get_time_lims(t, t_lim, total_length) ==
  IF t_lim = default_lim THEN [err |-> "none", lim |-> <<IntV(0), IntV(total_length - 1)>>]
  ELSE IF IsInt(t_lim[1]) \/ IsInt(t_lim[2]) THEN [err |-> "none", lim |-> t_lim]
  ELSE IF IsDate(t_lim[1]) THEN
    IF idx_from_date(t, t_lim[1]).err # "none" \/ idx_from_date(t, t_lim[2]).err # "none"
    THEN [err |-> "DateNotIn", lim |-> t_lim]
    ELSE [err |-> "none", lim |-> <<IntV(idx_from_date(t, t_lim[1]).idx), IntV(idx_from_date(t, t_lim[2]).idx)>>]
  ELSE [err |-> "TypeError", lim |-> t_lim]

\* variant: the end point is left out of the slice
lims_to_slices_exclusive(lims) ==
  [p \in 1..Len(lims) |-> <<lims[p][1], lims[p][2]>>]

lims_to_slices(lims) ==
  [p \in 1..Len(lims) |->
     IF ~IsNone(lims[p][2]) THEN <<lims[p][1], IntV(lims[p][2].v + 1)>>
     ELSE <<lims[p][1], lims[p][2]>>]

\* --------------------------------------------------- _compute_time_dist
Unbound == [k |-> "unbound", v |-> 0]

RECURSIVE scan_files(_, _, _, _, _, _)
\* the nested loop over files i and local indices j; st carries the locals
scan_files(tpf, idx_start, idx_stop, i, j, st) ==
  IF i >= Cardinality(DOMAIN tpf) THEN st
  ELSE IF j >= tpf[i] THEN scan_files(tpf, idx_start, idx_stop, i + 1, 0, st)
  ELSE LET s1 == IF idx_start = st.idx_total
                 THEN [st EXCEPT !.file_start = IntV(i), !.i_start = IntV(j)] ELSE st
           s2 == IF idx_stop = st.idx_total
                 THEN [s1 EXCEPT !.file_stop = IntV(i), !.i_stop = IntV(j)] ELSE s1
       IN scan_files(tpf, idx_start, idx_stop, i, j + 1, [s2 EXCEPT !.idx_total = s2.idx_total + 1])

locate(tpf, idx_start, idx_stop) ==
  scan_files(tpf, idx_start, idx_stop, 0, 0,
             [file_start |-> Unbound, i_start |-> Unbound, file_stop |-> Unbound,
              i_stop |-> Unbound, idx_total |-> 0])

\* variant: the stop entry is written before the start entry as a whole pair,
\* so a start file that is also the stop file keeps an open end
make_t_dist_overwrite(n, st) ==
  [k \in 0..(n - 1) |-> IF k = st.file_start.v THEN <<st.i_start, None>>
                         ELSE IF k = st.file_stop.v THEN <<None, st.i_stop>>
                         ELSE <<None, None>>]

\* t_dist: (None, None) everywhere, then the start and the stop entries
make_t_dist(n, st) ==
  [k \in 0..(n - 1) |-> <<IF k = st.file_start.v THEN st.i_start ELSE None,
                          IF k = st.file_stop.v THEN st.i_stop ELSE None>>]

\* variant: the files between the start and the end file are left unmarked
fill_between_never(use_files) == use_files

\* fill use_files with True between the "start" and the "end" file
fill_between(use_files) ==
  LET trues == {k \in DOMAIN use_files : use_files[k]}
  IN IF Cardinality(trues) = 2 /\ LastOf(trues) - FirstOf(trues) # 1
     THEN [k \in DOMAIN use_files |-> use_files[k] \/ (FirstOf(trues) < k /\ k < LastOf(trues))]
     ELSE use_files

compute_time_dist(tpf, idx_start, idx_stop) ==
  LET n == Cardinality(DOMAIN tpf)
      st == locate(tpf, idx_start, idx_stop)
  IN IF st.file_start = Unbound \/ st.file_stop = Unbound
     THEN [err |-> "UnboundLocalError", use_files |-> None, t_dist |-> None]
     ELSE [err |-> "none",
           use_files |-> fill_between([k \in 0..(n - 1) |-> k = st.file_start.v \/ k = st.file_stop.v]),
           t_dist |-> make_t_dist(n, st)]

\* ------------------------------------------------------------ get_var
\* outvar.OutVar(): every attribute None
OutVar ==
  [name |-> None, lims |-> None, bounds |-> None, use_files |-> None, t_dist |-> None,
   dim_names |-> None, data |-> None, time |-> None]

\* what a call leaves behind: the error raised ("none": var is returned),
\* the OutVar as built so far, the file accesses, self.time and whether
\* self.time was assigned
Outcome(e, v, log, t, b) == [err |-> e, var |-> v, io |-> log, time |-> t, built |-> b]

RECURSIVE read_files_all(_, _, _, _)
\* variant: every file is read, whether the plan marks it or not
read_files_all(v, lims, t_idx, n) ==
  IF n = 0 THEN [data_list |-> <<>>, io |-> <<>>]
  ELSE LET before == read_files_all(v, lims, t_idx, n - 1)
           i == n - 1
           slices == lims_to_slices([lims EXCEPT ![t_idx + 1] = v.t_dist[i]])
       IN [data_list |-> Append(before.data_list, GetItem(FileVar(i, v.name), slices)),
           io |-> before.io \o open_close(i, "data")]

RECURSIVE read_files(_, _, _, _)
\* the loop over self.filepaths of get_var, files 0..n-1: data_list and accesses
read_files(v, lims, t_idx, n) ==
  IF n = 0 THEN [data_list |-> <<>>, io |-> <<>>]
  ELSE LET before == read_files(v, lims, t_idx, n - 1)
           i == n - 1
           slices == lims_to_slices([lims EXCEPT ![t_idx + 1] = v.t_dist[i]])
       IN IF v.use_files[i]
          THEN [data_list |-> Append(before.data_list, GetItem(FileVar(i, v.name), slices)),
                io |-> before.io \o open_close(i, "data")]
          ELSE before

\* variant: the slice of self.time always starts at its first entry
time_slice_from_first(t, sl) == SubSeq(t, 1, SliceStop(sl, Len(t)))

\* self.time[slice]
time_slice(t, sl) == SubSeq(t, SliceStart(sl, Len(t)) + 1, SliceStop(sl, Len(t)))

\* variant: the limits are verified only after the planner has run
get_var_time_plan_first(v3, io2) ==
  LET t == [set |-> TRUE, val |-> set_time_array]
      io3 == io2 \o FilesLog(nfiles, "time")
      t_idx == ListIndex(v3.dim_names, time_name)
      v4 == [v3 EXCEPT !.bounds[t_idx + 1] = get_num_time_entries]
      io4 == io3 \o FilesLog(nfiles, "attr")
      tl == get_time_lims(t.val, v4.lims[t_idx + 1], v4.bounds[t_idx + 1])
      v5 == [v4 EXCEPT !.lims[t_idx + 1] = tl.lim]
      ve == verify_lims(v5.lims, v5.bounds)
      io5 == io4 \o FilesLog(nfiles, "attr")
      td == compute_time_dist(t_per_file, v5.lims[t_idx + 1][1].v, v5.lims[t_idx + 1][2].v)
      v6 == [v5 EXCEPT !.use_files = td.use_files, !.t_dist = td.t_dist]
      rd == read_files(v6, v6.lims, t_idx, nfiles)
      data == np_concatenate(rd.data_list, t_idx)
      v7 == [v6 EXCEPT !.time = time_slice(t.val, lims_to_slices(<<v6.lims[t_idx + 1]>>)[1])]
  IN IF tl.err # "none" THEN Outcome(tl.err, v4, io4, t, 1)
     ELSE IF td.err # "none" THEN Outcome(td.err, v5, io5, t, 1)
     ELSE IF ve # "none" THEN Outcome(ve, v6, io5, t, 1)
     ELSE Outcome("none", [v7 EXCEPT !.data = squeeze(data)], io5 \o rd.io, t, 1)

\* the branch of get_var for a variable with the time dimension
get_var_time(v3, io2) ==
  LET t == [set |-> TRUE, val |-> set_time_array]
      io3 == io2 \o FilesLog(nfiles, "time")
      t_idx == ListIndex(v3.dim_names, time_name)
      v4 == [v3 EXCEPT !.bounds[t_idx + 1] = get_num_time_entries]
      io4 == io3 \o FilesLog(nfiles, "attr")
      tl == get_time_lims(t.val, v4.lims[t_idx + 1], v4.bounds[t_idx + 1])
      v5 == [v4 EXCEPT !.lims[t_idx + 1] = tl.lim]
      ve == verify_lims(v5.lims, v5.bounds)
      io5 == io4 \o FilesLog(nfiles, "attr")
      td == compute_time_dist(t_per_file, v5.lims[t_idx + 1][1].v, v5.lims[t_idx + 1][2].v)
      v6 == [v5 EXCEPT !.use_files = td.use_files, !.t_dist = td.t_dist]
      rd == read_files(v6, v6.lims, t_idx, nfiles)
      data == np_concatenate(rd.data_list, t_idx)
      v7 == [v6 EXCEPT !.time = time_slice(t.val, lims_to_slices(<<v6.lims[t_idx + 1]>>)[1])]
  IN IF tl.err # "none" THEN Outcome(tl.err, v4, io4, t, 1)
     ELSE IF ve # "none" THEN Outcome(ve, v5, io4, t, 1)
     ELSE IF td.err # "none" THEN Outcome(td.err, v5, io5, t, 1)
     ELSE Outcome("none", [v7 EXCEPT !.data = squeeze(data)], io5 \o rd.io, t, 1)

\* variant: the data is taken from the last file instead of the first
get_var_static_last_file(v3, io2) ==
  LET ve == verify_lims(v3.lims, v3.bounds)
      slices == lims_to_slices(v3.lims)
      data == GetItem(FileVar(nfiles - 1, v3.name), slices)
  IN IF ve # "none" THEN Outcome(ve, v3, io2, time, 0)
     ELSE Outcome("none", [v3 EXCEPT !.data = squeeze(data)], io2 \o open_close(nfiles - 1, "data"), time, 0)

\* the branch of get_var for a variable without the time dimension
get_var_static(v3, io2) ==
  LET ve == verify_lims(v3.lims, v3.bounds)
      slices == lims_to_slices(v3.lims)
      data == GetItem(FileVar(0, v3.name), slices)
  IN IF ve # "none" THEN Outcome(ve, v3, io2, time, 0)
     ELSE Outcome("none", [v3 EXCEPT !.data = squeeze(data)], io2 \o open_close(0, "data"), time, 0)

get_var(var_name, limits) ==
  LET v1 == [OutVar EXCEPT !.name = var_name]
      io1 == open_close(0, "attr")
      v2 == [v1 EXCEPT !.dim_names = dimensions(var_name)]
      v3 == [v2 EXCEPT !.lims = get_dim_lims(v2.dim_names, limits), !.bounds = shape(0, var_name)]
      io2 == io1 \o open_close(0, "attr")
  IN IF var_name \notin Variables THEN Outcome("InvalidVariable", v1, io1, time, 0)
     ELSE IF verify_kwargs(v2.dim_names, limits) # "none" THEN Outcome("NoDimension", v2, io1, time, 0)
     ELSE IF InList(time_name, v3.dim_names) THEN get_var_time(v3, io2)
     ELSE get_var_static(v3, io2)

\* ---------------------------------------------- datasets and arguments
\* the datasets considered: nf files of at most ml time entries each and at
\* most total entries together; the raw time values increase along the
\* files, except that the first value occurs twice (within the first file
\* or across a file boundary)
Layouts(nf, ml, total) ==
  {[k \in 0..(nf - 1) |-> [j \in 1..sz[k] |-> Max(SumTo(sz, k) + j - 2, 0)]] :
     sz \in {z \in [0..(nf - 1) -> 0..ml] : SumTo(z, nf) <= total}}

\* index arguments around the valid range of a dimension of size bound
IntVals(bound) == {IntV(n) : n \in (0 - 1)..(bound + 1)}

\* datetime arguments: every date of the time axis and the next one, which is absent
DateVals == {num2date(r, t_units) : r \in UNION {{shards[k][j] : j \in 1..Len(shards[k])} : k \in DOMAIN shards} \cup {get_num_time_entries}}

SameKindPairs(ints, dates) ==
  {Pair(x, y) : x \in ints, y \in ints} \cup {Pair(x, y) : x \in dates, y \in dates}

\* the values a caller passes for key under variable var_name
UserVals(var_name, key) ==
  IF var_name \notin Variables \/ ~InList(key, dimensions(var_name))
  THEN {Absent, Scalar(IntV(0))}
  ELSE IF key = time_name
  THEN {Absent} \cup {Scalar(x) : x \in IntVals(get_num_time_entries) \cup DateVals}
       \cup SameKindPairs(IntVals(get_num_time_entries), DateVals)
  ELSE {Absent} \cup {Scalar(x) : x \in IntVals(XSize) \cup {DateV(t_units)}}
       \cup SameKindPairs(IntVals(XSize), {DateV(t_units)})

\* ------------------------------------------------------------ actions
NoRes == [done |-> FALSE, name |-> "", limits |-> [key \in Keys |-> Absent], err |-> "none", var |-> OutVar]
NoPlan == [done |-> FALSE, start |-> 0, stop |-> 0, err |-> "none", use_files |-> None, t_dist |-> None]
NoRet == [op |-> "none", arg |-> <<>>, err |-> "none", val |-> None]
NoTime == [set |-> FALSE, val |-> <<>>]

\* a caller invokes get_var(var_name, **limits) on the handle
GetVar ==
  /\ ~res.done
  /\ \E var_name \in Variables \cup {"nope"} :
       \E lt \in UserVals(var_name, "ocean_time"), lx \in UserVals(var_name, "xi_rho") :
         LET limits == [key \in Keys |-> IF key = "ocean_time" THEN lt ELSE lx]
         IN \E out \in {get_var(var_name, limits)} :
              /\ res' = [done |-> TRUE, name |-> var_name, limits |-> limits, err |-> out.err, var |-> out.var]
              /\ io' = out.io
              /\ time' = out.time
              /\ rewritten' = (rewritten \/ (out.built = 1 /\ time.set))
  /\ UNCHANGED <<shards, plan, ret>>

\* the caller is done with the returned record (or has handled the error)
DropVar ==
  /\ res.done
  /\ res' = NoRes
  /\ io' = <<>>
  /\ UNCHANGED <<shards, time, rewritten, plan, ret>>

\* a handle on the files chosen by layouts, no call made yet
InitOn(layouts) ==
  /\ shards \in layouts
  /\ time = NoTime
  /\ rewritten = FALSE
  /\ res = NoRes
  /\ io = <<>>
  /\ plan = NoPlan
  /\ ret = NoRet

\* one get_var call on a new handle
Init == InitOn(Layouts(NumFiles, MaxEntries, MaxEntries))

Next == GetVar

Spec == Init /\ [][Next]_vars

\* repeated get_var calls on one handle
InitCalls == InitOn(Layouts(CallFiles, CallEntries, CallEntries))

NextCalls == GetVar \/ DropVar

SpecCalls == InitCalls /\ [][NextCalls]_vars

\* ------------------------------------- the planner on larger datasets
\* _compute_time_dist applied to an index range that _verify_lims accepts
ComputeTimeDist ==
  /\ ~plan.done
  /\ \E start \in 0..get_num_time_entries, stop \in 0..get_num_time_entries :
       /\ verify_one(IntV(start), IntV(stop), get_num_time_entries) = "none"
       /\ LET td == compute_time_dist(t_per_file, start, stop)
          IN plan' = [done |-> TRUE, start |-> start, stop |-> stop, err |-> td.err,
                      use_files |-> td.use_files, t_dist |-> td.t_dist]
  /\ UNCHANGED <<shards, time, rewritten, res, io, ret>>

InitPlan == InitOn(Layouts(PlanFiles, PlanMaxLen, PlanFiles * PlanMaxLen))

NextPlan == ComputeTimeDist

SpecPlan == InitPlan /\ [][NextPlan]_vars

\* ------------------------------------------------- the OutVar methods
\* variant: the loops are nested the other way round, suggestions outermost
identify_dim_by_suggestion(v, suggestions) ==
  LET hits == {i \in 1..Len(suggestions) : InList(suggestions[i], v.dim_names)}
  IN IF hits = {} THEN [err |-> "NoDimensionInSuggestions", val |-> None]
     ELSE [err |-> "none", val |-> suggestions[FirstOf(hits)]]

\* OutVar.identify_dim(suggestions) on the record v
identify_dim(v, suggestions) ==
  LET hits == {p \in 1..Len(v.dim_names) : InList(v.dim_names[p], suggestions)}
  IN IF hits = {} THEN [err |-> "NoDimensionInSuggestions", val |-> None]
     ELSE [err |-> "none", val |-> v.dim_names[FirstOf(hits)]]

\* dimension names of the records and of the suggestions
NamePool == <<"s_rho", "eta_rho", "xi_rho", "xi_u", "eta_v">>
RecNames == {NamePool[p] : p \in 1..(MaxRecDims + 1)}

\* lists of distinct dimension names
DimLists ==
  {ds \in UNION {[1..n -> RecNames] : n \in 1..MaxRecDims} :
     \A p \in 1..Len(ds), q \in 1..Len(ds) : p # q => ds[p] # ds[q]}

\* the size of a dimension: 1 or 2, by its place in NamePool
RecSize(d) == 1 + ((CHOOSE p \in 1..Len(NamePool) : NamePool[p] = d) % 2)

\* the limits _verify_lims accepts for a dimension of size bound
ValidLims(bound) ==
  {default_lim} \cup {l \in {<<IntV(lo), IntV(hi)>> : lo \in 0..bound, hi \in 0..bound} :
                         verify_one(l[1], l[2], bound) = "none"}

\* the records get_var can return for a variable with dimensions ds
RecordsOf(ds) ==
  {[OutVar EXCEPT !.name = "var", !.dim_names = ds, !.bounds = [p \in 1..Len(ds) |-> RecSize(ds[p])], !.lims = ls] :
     ls \in {l \in [1..Len(ds) -> ValidLims(2)] : \A p \in 1..Len(ds) : l[p] \in ValidLims(RecSize(ds[p]))}}

Records == UNION {RecordsOf(ds) : ds \in DimLists}

Suggestions == UNION {[1..n -> RecNames \cup {"bogus"}] : n \in 0..2}

\* a caller invokes var.identify_dim(suggestions) on the record it holds
IdentifyDim ==
  /\ res.done /\ res.err = "none"
  /\ ret = NoRet
  /\ \E suggestions \in Suggestions :
       LET out == identify_dim(res.var, suggestions)
       IN ret' = [op |-> "identify_dim", arg |-> suggestions, err |-> out.err, val |-> out.val]
  /\ UNCHANGED <<shards, time, rewritten, res, io, plan>>

\* OutVar.get_lim(dim_name) on the record v; the message of the ValueError
\* is formatted from self.var_name, an attribute the record may not have
get_lim(v, dim_name) ==
  LET hits == {i \in 1..Len(v.dim_names) : v.dim_names[i] = dim_name}
  IN IF hits # {} THEN [err |-> "none", val |-> v.lims[FirstOf(hits)]]
     ELSE IF "var_name" \in DOMAIN v THEN [err |-> "NotADimension", val |-> None]
     ELSE [err |-> "AttributeError", val |-> None]

\* OutVar.get_bound(dim_name) on the record v
get_bound(v, dim_name) ==
  LET hits == {i \in 1..Len(v.dim_names) : v.dim_names[i] = dim_name}
  IN IF hits # {} THEN [err |-> "none", val |-> v.bounds[FirstOf(hits)]]
     ELSE IF "var_name" \in DOMAIN v THEN [err |-> "NotADimension", val |-> None]
     ELSE [err |-> "AttributeError", val |-> None]

RECURSIVE range_dims_upto(_, _)
\* the loop of get_range_dims over the first n dimensions
range_dims_upto(v, n) ==
  IF n = 0 THEN <<>>
  ELSE LET l0 == IF IsNone(v.lims[n][1]) THEN 0 ELSE v.lims[n][1].v
           l1 == IF IsNone(v.lims[n][2]) THEN get_bound(v, v.dim_names[n]).val ELSE v.lims[n][2].v
       IN IF l1 - l0 > 0 THEN Append(range_dims_upto(v, n - 1), v.dim_names[n])
          ELSE range_dims_upto(v, n - 1)

\* OutVar.get_range_dims(enforce) on the record v
get_range_dims(v, enforce) ==
  LET range_dims == range_dims_upto(v, Len(v.dim_names))
  IN IF Len(range_dims) # enforce THEN [err |-> "RangeDimCount", val |-> None]
     ELSE [err |-> "none", val |-> range_dims]

\* a caller invokes var.get_lim(dim_name) on the record it holds
GetLim ==
  /\ res.done /\ res.err = "none"
  /\ ret.op = "none"
  /\ \E dim_name \in RecNames \cup {"bogus"} :
       LET out == get_lim(res.var, dim_name)
       IN ret' = [op |-> "get_lim", arg |-> <<dim_name>>, err |-> out.err, val |-> out.val]
  /\ UNCHANGED <<shards, time, rewritten, res, io, plan>>

\* a caller invokes var.get_bound(dim_name) on the record it holds
GetBound ==
  /\ res.done /\ res.err = "none"
  /\ ret.op = "none"
  /\ \E dim_name \in RecNames \cup {"bogus"} :
       LET out == get_bound(res.var, dim_name)
       IN ret' = [op |-> "get_bound", arg |-> <<dim_name>>, err |-> out.err, val |-> out.val]
  /\ UNCHANGED <<shards, time, rewritten, res, io, plan>>

\* a caller invokes var.get_range_dims(enforce) on the record it holds
GetRangeDims ==
  /\ res.done /\ res.err = "none"
  /\ ret.op = "none"
  /\ \E enforce \in 0..MaxRecDims :
       LET out == get_range_dims(res.var, enforce)
       IN ret' = [op |-> "get_range_dims", arg |-> <<enforce>>, err |-> out.err, val |-> out.val]
  /\ UNCHANGED <<shards, time, rewritten, res, io, plan>>

InitRec ==
  /\ shards \in Layouts(1, 0, 0)
  /\ time = NoTime
  /\ rewritten = FALSE
  /\ \E v \in Records : res = [done |-> TRUE, name |-> v.name, limits |-> [key \in Keys |-> Absent], err |-> "none", var |-> v]
  /\ io = <<>>
  /\ plan = NoPlan
  /\ ret = NoRet

NextRec == IdentifyDim \/ GetLim \/ GetBound \/ GetRangeDims

SpecRec == InitRec /\ [][NextRec]_vars

\* =============================================================== claims
\* the call returned a record
Returned == res.done /\ res.err = "none"
HasTime(v) == InList(time_name, v.dim_names)
TIdx(v) == ListIndex(v.dim_names, time_name) + 1

\* number of time entries in the files before file k
Before(k) == SumTo(t_per_file, k)
\* the file holding global time index g
ShardOf(g) == CHOOSE k \in DOMAIN shards : Before(k) <= g /\ g < Before(k) + t_per_file[k]

\* the unsharded dataset: every file's complete array, joined in file order
Unsharded(var_name, axis) ==
  np_concatenate([k \in 1..nfiles |-> FileVar(k - 1, var_name)], axis)

\* entries start..stop of the unsharded dataset along the time axis, the
\* other axes cut as the record's limits say
GlobalRead(v) ==
  GetItem(Unsharded(v.name, TIdx(v) - 1),
          [p \in 1..Len(v.lims) |->
             IF p = TIdx(v) THEN <<v.lims[p][1], IntV(v.lims[p][2].v + 1)>>
             ELSE lims_to_slices(v.lims)[p]])

\* C1: for a variable with the time dimension and a time range start..stop
\* with 0 <= start <= stop <= N-1 (the other limits valid), get_var returns,
\* and its data is entries start..stop of the unsharded concatenation of
\* all files: same shape, same values, same order
C1_ShardedReadIsGlobalRead ==
  (res.done /\ res.err \notin {"InvalidVariable", "NoDimension", "DateNotIn"} /\ HasTime(res.var)
     /\ verify_lims(res.var.lims, res.var.bounds) = "none"
     /\ res.var.lims[TIdx(res.var)][2].v <= get_num_time_entries - 1)
  => /\ res.err = "none"
     /\ res.var.data = squeeze(GlobalRead(res.var))

\* a read of temp that starts inside file 0, crosses file 1 and ends inside file 2
C1_Witness ==
  /\ Returned /\ res.name = "temp"
  /\ \A k \in 0..2 : res.var.use_files[k]
  /\ res.var.t_dist[0] = <<IntV(1), None>> /\ res.var.t_dist[2] = <<None, IntV(0)>>
  /\ res.var.data.shape = <<3, XSize>>

\* the planner was applied to a range whose ends both lie inside files
Located == plan.done /\ plan.stop <= get_num_time_entries - 1

\* C2: when start and stop fall in two different files s < e, the plan marks
\* file s with (start - Before(s), None), file e with (None, stop - Before(e)),
\* every file strictly between them with (None, None), and no file before s
\* or after e; files [5, 5, 5] and range (3, 7) give file 0 = (3, None),
\* file 1 = (None, 2), file 2 unused
C2_PlanAcrossFiles ==
  /\ (Located /\ ShardOf(plan.start) # ShardOf(plan.stop))
     => LET s == ShardOf(plan.start)
            e == ShardOf(plan.stop)
        IN /\ plan.err = "none"
           /\ s < e
           /\ plan.use_files = [k \in DOMAIN shards |-> s <= k /\ k <= e]
           /\ plan.t_dist[s] = <<IntV(plan.start - Before(s)), None>>
           /\ plan.t_dist[e] = <<None, IntV(plan.stop - Before(e))>>
           /\ \A k \in DOMAIN shards : (s < k /\ k < e) => plan.t_dist[k] = <<None, None>>
  /\ (plan.done /\ (\A k \in 0..2 : t_per_file[k] = 5) /\ plan.start = 3 /\ plan.stop = 7)
     => /\ plan.err = "none"
        /\ \A k \in DOMAIN shards : plan.use_files[k] <=> k \in {0, 1}
        /\ plan.t_dist[0] = <<IntV(3), None>>
        /\ plan.t_dist[1] = <<None, IntV(2)>>

\* the plan for files [5, 5, 5] and range (3, 7)
C2_Witness ==
  /\ plan.done /\ plan.err = "none"
  /\ (\A k \in 0..2 : t_per_file[k] = 5) /\ plan.start = 3 /\ plan.stop = 7
  /\ plan.use_files[0] /\ plan.use_files[1] /\ ~plan.use_files[2]

\* C3: when start and stop fall in the same file k, the plan marks exactly
\* file k, and its bounds are both ints: start and stop minus Before(k)
C3_PlanInsideOneFile ==
  (Located /\ ShardOf(plan.start) = ShardOf(plan.stop))
  => LET k == ShardOf(plan.start)
     IN /\ plan.err = "none"
        /\ plan.use_files = [f \in DOMAIN shards |-> f = k]
        /\ IsInt(plan.t_dist[k][1]) /\ IsInt(plan.t_dist[k][2])
        /\ plan.t_dist[k] = <<IntV(plan.start - Before(k)), IntV(plan.stop - Before(k))>>

\* the plan for files [5, 5, 5] and range (6, 8): file 1 alone, local (1, 3)
C3_Witness ==
  /\ plan.done /\ plan.err = "none"
  /\ (\A k \in 0..2 : t_per_file[k] = 5) /\ plan.start = 6 /\ plan.stop = 8
  /\ ~plan.use_files[0] /\ plan.use_files[1] /\ ~plan.use_files[2]

\* number of elements that the slice made from limit p selects
Selected(v, p) == SliceLen(lims_to_slices(v.lims)[p], v.bounds[p])

\* C4: a limit pair (a, b), b not None, that passed _verify_lims for a
\* dimension of size bound is turned into a slice selecting b - a + 1 elements
C4_SliceSelectsInclusiveRange ==
  Returned => \A p \in 1..Len(res.var.lims) :
                ~IsNone(res.var.lims[p][2])
                => Selected(res.var, p) = res.var.lims[p][2].v - res.var.lims[p][1].v + 1

\* a limit is outside [0, bound] or has its lower end above its upper end
BadLim(lim, bound) ==
  \/ lim[1].v > bound \/ lim[2].v > bound
  \/ lim[1].v < 0 \/ lim[2].v < 0
  \/ lim[1].v > lim[2].v

\* every limit was resolved to the default or to a pair of ints
Resolved ==
  /\ res.done /\ res.err \notin {"InvalidVariable", "NoDimension"}
  /\ \A p \in 1..Len(res.var.lims) :
       res.var.lims[p] = default_lim \/ (IsInt(res.var.lims[p][1]) /\ IsInt(res.var.lims[p][2]))

LimitRangeErrors == {"OutsideLimits", "LowerLargerUpper"}

\* C5: with all limits resolved, get_var fails with the limit-range error
\* (and returns no record) exactly when some non-default limit lies outside
\* [0, bound] or has lower > upper
C5_LimitRangeError ==
  Resolved => ((res.err \in LimitRangeErrors)
               <=> \E p \in 1..Len(res.var.lims) :
                     res.var.lims[p] # default_lim /\ BadLim(res.var.lims[p], res.var.bounds[p]))

\* a call on temp that fails because the xi_rho limit is inverted while the
\* time limit is fine
C5_Witness ==
  /\ Resolved /\ res.name = "temp" /\ res.err = "LowerLargerUpper"
  /\ ~BadLim(res.var.lims[1], res.var.bounds[1])
  /\ res.var.lims[2] # default_lim /\ res.var.lims[2][1].v > res.var.lims[2][2].v

\* the last call passed a key that is not a dimension of the (known) variable
ForeignKey ==
  /\ res.done /\ res.name \in Variables
  /\ \E key \in Keys : res.limits[key] # Absent /\ ~InList(key, dimensions(res.name))

\* C6 as stated: a key that is not a dimension of the variable makes get_var
\* fail with the schema error, and no file was opened or read in that call
C6_NoFileTouched == ForeignKey => (res.err = "NoDimension" /\ io = <<>>)

\* C6 amended: such a key makes get_var fail with the schema error; in that
\* call only the first file was opened, once, to read the variable's
\* dimension names, and closed again: no data or time values were read
C6_OnlySchemaProbe ==
  ForeignKey => /\ res.err = "NoDimension"
                /\ io = <<[op |-> "open", f |-> 0], [op |-> "attr", f |-> 0], [op |-> "close", f |-> 0]>>

\* get_var("h", ocean_time=...) was rejected
C6_Witness == ForeignKey /\ res.name = "h" /\ res.err = "NoDimension" /\ Len(io) = 3

\* the virtual time axis: the decoded time value of global index g
AxisAt(g) == num2date(shards[ShardOf(g)][g - Before(ShardOf(g)) + 1], t_units)
\* the global indices whose time value is date
Holding(date) == {g \in 0..(get_num_time_entries - 1) : AxisAt(g) = date}

\* the last call gave one datetime as the limit of the time dimension
DateCall ==
  /\ res.done /\ res.err \notin {"InvalidVariable", "NoDimension"} /\ HasTime(res.var)
  /\ res.limits[time_name].t = "scalar" /\ IsDate(res.limits[time_name].a)

\* C7: a single datetime as time limit resolves to (i, i), i the smallest
\* global index whose time value equals it, also when the value occurs more
\* than once; when no entry equals it get_var fails with the
\* time-not-found error
C7_DateResolvesToFirstMatch ==
  DateCall =>
    IF Holding(res.limits[time_name].a) = {} THEN res.err = "DateNotIn"
    ELSE /\ res.err # "DateNotIn"
         /\ \E i \in Holding(res.limits[time_name].a) :
              /\ \A g \in Holding(res.limits[time_name].a) : i <= g
              /\ res.var.lims[TIdx(res.var)] = <<IntV(i), IntV(i)>>

\* a returned call whose date is held by the last entry of one file and the
\* first entry of the next
C7_Witness ==
  /\ DateCall /\ res.err = "none"
  /\ \E g \in Holding(res.limits[time_name].a) :
       /\ g + 1 \in Holding(res.limits[time_name].a)
       /\ ShardOf(g) # ShardOf(g + 1)

\* C8: in a returned record, the axis of every dimension whose limit is a
\* single index is absent from the data, while dim_names, lims and bounds
\* keep one entry per dimension of the variable
C8_SingleIndexAxisDropped ==
  Returned =>
    /\ \A p \in 1..Len(res.var.lims) :
         (res.var.lims[p] # default_lim /\ res.var.lims[p][1] = res.var.lims[p][2])
         => ~InList(res.var.dim_names[p], res.var.data.axes)
    /\ Len(res.var.dim_names) = Len(dimensions(res.name))
    /\ Len(res.var.lims) = Len(dimensions(res.name))
    /\ Len(res.var.bounds) = Len(dimensions(res.name))

\* C9 as stated: self.time is written at most once on a handle, it is
\* never assigned again once it is set
C9_TimeWrittenOnce == ~rewritten

\* a step is a get_var call that reaches the branch for the time dimension
TimeCall == ~res.done /\ res'.done /\ res'.err \notin {"InvalidVariable", "NoDimension"} /\ HasTime(res.var)'

\* C9 amended: every get_var call on a variable with the time dimension
\* reads the time values of every file again and assigns self.time again,
\* to the value it already had if it was set; any other step leaves
\* self.time alone
C9_TimeRebuiltToSameValue ==
  [][/\ TimeCall => /\ time'.set
                    /\ time.set => (rewritten' /\ time'.val = time.val)
                    /\ \A k \in DOMAIN shards : \E i \in DOMAIN io' : io'[i] = [op |-> "time", f |-> k]
     /\ ~TimeCall => UNCHANGED <<time, rewritten>>]_vars

\* a later call on the handle has assigned self.time again
C9_Witness == rewritten /\ time.set /\ Len(time.val) > 0 /\ Returned

\* C10 as stated: identify_dim returns the first element of suggestions that
\* is a dimension of the variable, and fails when there is none
C10_FirstSuggestion ==
  ret.op = "identify_dim" =>
    IF \E i \in 1..Len(ret.arg) : InList(ret.arg[i], res.var.dim_names)
    THEN /\ ret.err = "none"
         /\ \E i \in 1..Len(ret.arg) :
              /\ ret.val = ret.arg[i]
              /\ InList(ret.arg[i], res.var.dim_names)
              /\ \A j \in 1..(i - 1) : ~InList(ret.arg[j], res.var.dim_names)
    ELSE ret.err = "NoDimensionInSuggestions"

\* C10 amended: identify_dim returns the first of the variable's dimension
\* names, in the order of dim_names, that occurs in suggestions, and fails
\* when no suggestion is a dimension of the variable
C10_FirstDimension ==
  ret.op = "identify_dim" =>
    IF \E i \in 1..Len(ret.arg) : InList(ret.arg[i], res.var.dim_names)
    THEN /\ ret.err = "none"
         /\ \E p \in 1..Len(res.var.dim_names) :
              /\ ret.val = res.var.dim_names[p]
              /\ InList(res.var.dim_names[p], ret.arg)
              /\ \A q \in 1..(p - 1) : ~InList(res.var.dim_names[q], ret.arg)
    ELSE ret.err = "NoDimensionInSuggestions"

\* two suggestions that name the two dimensions in the opposite order
C10_Witness ==
  /\ ret.op = "identify_dim" /\ ret.err = "none"
  /\ Len(res.var.dim_names) = 2 /\ Len(ret.arg) = 2
  /\ ret.arg[1] = res.var.dim_names[2] /\ ret.arg[2] = res.var.dim_names[1]
  /\ ret.val = res.var.dim_names[1]

\* the errors raised for an unknown variable or an unknown dimension name
SchemaErrors == {"InvalidVariable", "NoDimension", "NotADimension"}

\* C11: get_lim(name) and get_bound(name) return the limit, respectively the
\* bound, stored at the position of name in dim_names; when name is not a
\* dimension of the variable both fail with the schema error
C11_LookupByName ==
  ret.op \in {"get_lim", "get_bound"} =>
    IF InList(ret.arg[1], res.var.dim_names)
    THEN /\ ret.err = "none"
         /\ ret.op = "get_lim" => ret.val = res.var.lims[ListIndex(res.var.dim_names, ret.arg[1]) + 1]
         /\ ret.op = "get_bound" => ret.val = res.var.bounds[ListIndex(res.var.dim_names, ret.arg[1]) + 1]
    ELSE ret.err \in SchemaErrors

\* number of indices the limit of dimension p names: a default limit is the
\* full range 0..size-1, a limit (a, b) the indices a..b
Span(v, p) ==
  IF v.lims[p] = default_lim THEN v.bounds[p] ELSE v.lims[p][2].v - v.lims[p][1].v + 1

\* positions of the dimensions whose range holds more than one index
Wide(v) == {p \in 1..Len(v.dim_names) : Span(v, p) > 1}

\* C12: get_range_dims(enforce) returns the dimensions whose resolved range
\* holds more than one index, in dimension order (a defaulted dimension of
\* size 1 is not among them), and fails with the range-dimension-count error
\* exactly when their number differs from enforce
C12_RangeDims ==
  ret.op = "get_range_dims" =>
    IF Cardinality(Wide(res.var)) = ret.arg[1]
    THEN /\ ret.err = "none"
         /\ Len(ret.val) = Cardinality(Wide(res.var))
         /\ \A p \in Wide(res.var) :
              ret.val[Cardinality({q \in Wide(res.var) : q < p}) + 1] = res.var.dim_names[p]
    ELSE ret.err = "RangeDimCount"

\* the time limit of the last call went through _verify_lims without error
TimeLimitVerified ==
  /\ res.done /\ res.err \notin {"InvalidVariable", "NoDimension", "DateNotIn"} /\ HasTime(res.var)
  /\ verify_lims(res.var.lims, res.var.bounds) = "none"

\* C13: every time limit (start, stop) that passes _verify_lims against the
\* total number of entries is located by _compute_time_dist: the call does
\* not fail on file_start/file_stop never being assigned, and both ends get
\* a file
C13_ValidatedLimitIsLocated ==
  TimeLimitVerified
  => /\ res.err # "UnboundLocalError"
     /\ \E s \in DOMAIN shards : IsInt(res.var.t_dist[s][1])
     /\ \E e \in DOMAIN shards : IsInt(res.var.t_dist[e][2])

\* the last call failed on a limit out of range or inverted
RangeFailure == res.done /\ res.err \in LimitRangeErrors

\* C14 as stated: when get_var raises the limit-range error, no file has
\* been opened in that call
C14_NoFileOpenedBeforeValidation == RangeFailure => io = <<>>

\* the two openings of the first file for the dimension names and the shape
SchemaProbe ==
  <<[op |-> "open", f |-> 0], [op |-> "attr", f |-> 0], [op |-> "close", f |-> 0],
    [op |-> "open", f |-> 0], [op |-> "attr", f |-> 0], [op |-> "close", f |-> 0]>>

\* C14 amended: when get_var raises the limit-range error, no data of the
\* variable has been read and the planner has not opened a file; a variable
\* without the time dimension has opened the first file twice (dimension
\* names, shape), a variable with it has after that opened every file once
\* for its time values and once more for its number of time entries
C14_ValidatedBeforeDataRead ==
  RangeFailure =>
    /\ \A i \in DOMAIN io : io[i].op # "data"
    /\ SubSeq(io, 1, 6) = SchemaProbe
    /\ ~HasTime(res.var) => Len(io) = 6
    /\ HasTime(res.var) =>
         /\ Len(io) = 6 + 6 * nfiles
         /\ \A k \in 0..(nfiles - 1) :
              /\ io[6 + 3 * k + 1] = [op |-> "open", f |-> k]
              /\ io[6 + 3 * k + 2] = [op |-> "time", f |-> k]
              /\ io[6 + 3 * k + 3] = [op |-> "close", f |-> k]
              /\ io[6 + 3 * nfiles + 3 * k + 1] = [op |-> "open", f |-> k]
              /\ io[6 + 3 * nfiles + 3 * k + 2] = [op |-> "attr", f |-> k]
              /\ io[6 + 3 * nfiles + 3 * k + 3] = [op |-> "close", f |-> k]

\* a call on temp with an inverted time limit inside the range: every file
\* was opened for its time values before the error
C14_Witness ==
  /\ RangeFailure /\ res.name = "temp" /\ res.err = "LowerLargerUpper"
  /\ res.var.lims[1][1].v > res.var.lims[1][2].v
  /\ res.var.lims[1][1].v < get_num_time_entries
  /\ \A k \in DOMAIN shards : \E i \in DOMAIN io : io[i] = [op |-> "time", f |-> k]

\* the last call asked for a variable that lacks the time dimension
StaticCall == res.done /\ res.name \in Variables /\ ~InList(time_name, dimensions(res.name))

\* C15: a get_var call for a variable without the time dimension opens only
\* the first file: no file at position 1 or later is opened during the call,
\* whatever the limits and whether the call returns or fails
C15_StaticOpensFirstShardOnly ==
  StaticCall => \A i \in DOMAIN io : io[i].f = 0

\* a returned read of h on a handle with several files that hold time entries
C15_Witness ==
  /\ StaticCall /\ Returned /\ res.name = "h"
  /\ nfiles >= 2 /\ t_per_file[1] > 0
  /\ \E i \in DOMAIN io : io[i] = [op |-> "data", f |-> 0]

IsDataRead(e) == e.op = "data"
\* the files the variable's data was read from, in the order of reading
DataFiles ==
  LET reads == SelectSeq(io, IsDataRead)
  IN [i \in 1..Len(reads) |-> reads[i].f]

\* the files that take part in the read: the first file for a variable
\* without the time dimension, else the file holding start, the file
\* holding stop and every file between them
Participating ==
  IF ~HasTime(res.var) THEN <<0>>
  ELSE LET s == ShardOf(res.var.lims[TIdx(res.var)][1].v)
           e == ShardOf(res.var.lims[TIdx(res.var)][2].v)
       IN [i \in 1..(e - s + 1) |-> s + i - 1]

\* C16: during a get_var call at most one file is open at any moment: every
\* open is followed by the close of the same file with no other open or
\* close between them, every close ends such a pair (so no file is open when
\* the call returns or fails), and every access goes to the file opened just
\* before it; the variable's data is read from the participating files only,
\* each once, in file-list order
C16_ScopedOrderedIO ==
  res.done =>
    /\ \A i \in DOMAIN io :
         /\ io[i].op = "open" =>
              \E d \in 1..(Len(io) - i) :
                /\ io[i + d] = [op |-> "close", f |-> io[i].f]
                /\ \A m \in 1..(d - 1) : io[i + m].op \notin {"open", "close"}
         /\ io[i].op = "close" =>
              \E d \in 1..(i - 1) :
                /\ io[i - d] = [op |-> "open", f |-> io[i].f]
                /\ \A m \in 1..(d - 1) : io[i - m].op \notin {"open", "close"}
         /\ io[i].op \notin {"open", "close"} =>
              /\ 1 < i /\ i < Len(io)
              /\ io[i - 1] = [op |-> "open", f |-> io[i].f]
              /\ io[i + 1] = [op |-> "close", f |-> io[i].f]
    /\ Returned => DataFiles = Participating
    /\ ~Returned => DataFiles = <<>>

\* a returned read of temp that skips a first file holding entries and takes
\* its data from the two files after it
C16_Witness ==
  /\ Returned /\ res.name = "temp"
  /\ t_per_file[0] > 0
  /\ DataFiles = <<1, 2>>

\* length of the data along the time axis before squeeze: squeeze drops an
\* axis exactly when its length is 1
TimeLen(data) ==
  IF InList(time_name, data.axes) THEN data.shape[ListIndex(data.axes, time_name) + 1] ELSE 1

\* C17: in a record returned for a variable with the time dimension, the
\* attached time array is the entries start..stop of the virtual time axis,
\* its length is that of the data along the time axis before squeezing,
\* stop - start + 1, and time entry k is the time of data slab k (each cell
\* of temp tells the file and the local index it was read from)
C17_TimeAlignedWithData ==
  (Returned /\ HasTime(res.var)) =>
    LET start == res.var.lims[TIdx(res.var)][1].v
        stop == res.var.lims[TIdx(res.var)][2].v
    IN /\ res.var.time = [g \in 1..(stop - start + 1) |-> AxisAt(start + g - 1)]
       /\ Len(res.var.time) = stop - start + 1
       /\ Len(res.var.time) = TimeLen(res.var.data)
       /\ res.name = "temp" =>
            \A idx \in DOMAIN res.var.data.at :
              LET cell == res.var.data.at[idx]
                  slab == IF InList(time_name, res.var.data.axes) THEN idx[1] ELSE 0
              IN AxisAt(Before(cell[1]) + cell[2]) = res.var.time[slab + 1]

\* a returned read of temp that starts after the first entry and takes
\* entries from two files
C17_Witness ==
  /\ Returned /\ res.name = "temp"
  /\ res.var.lims[1][1].v >= 1 /\ Len(res.var.time) >= 2
  /\ Len(DataFiles) = 2
  /\ res.var.data.shape = <<Len(res.var.time), XSize>>

====
